---- MODULE Spec2Model ----
(***************************************************************************)
(* Model of the job-status tracker of scrapee (the React hook useJobStatus *)
(* of lib/hooks/useJobStatus.ts) together with the status endpoint it      *)
(* polls.  JavaScript runs each handler to its next await without          *)
(* interleaving, so every action below is one such run: a call of the      *)
(* hook's API up to the fetch it issues, or the continuation that runs     *)
(* when the response of a fetch arrives (fetchStatus's try/catch/finally   *)
(* followed by the rest of its caller).  The job page's streaming summary  *)
(* client (generateSummary) and the summarize route that relays the        *)
(* engine's event stream are modelled the same way further down; each      *)
(* component has its own specification, in which the others rest.          *)
(***************************************************************************)
EXTENDS Naturals, Sequences, FiniteSets, Bags

\* ---------------------------------------------------------------- bounds
MaxInFlight == 2      \* status requests outstanding at the same time
MaxResults == 1       \* results a job accumulates on the server
MaxTimers == 2        \* interval handles the runtime hands out

\* ---------------------------------------------------------------- values
Null == "null"                       \* JavaScript null for ids and messages
NoTimer == 0                         \* intervalRef.current === null
Handles == 1..MaxTimers

NonTerminal == {"pending", "running"}
Terminal == {"completed", "failed"}

\* Job | null, reduced to the fields the tracker and the page read.
NoJob == [id |-> Null, status |-> "none", n |-> 0]
Job(id, st, n) == [id |-> id, status |-> st, n |-> n]

\* Messages fetchStatus puts in the error state.
ErrTransient == "Failed to fetch job status"
ErrNotFound == "Job not found"

\* What a status request resolves to: nothing yet, a job document, a
\* network/server/parse failure, or a not-found response.
Unanswered == [tag |-> "none", status |-> "none", n |-> 0]
OkRes(st, n) == [tag |-> "ok", status |-> st, n |-> n]
FailRes == [tag |-> "error", status |-> "none", n |-> 0]
NotFoundRes == [tag |-> "notfound", status |-> "none", n |-> 0]

VARIABLES
  phase,        \* "constructed" (first render), "mounted", "unmounted"
  jobId,        \* useState jobId
  job,          \* useState job (the exposed snapshot)
  isLoading,    \* useState isLoading
  error,        \* useState error
  isPolling,    \* useState isPolling
  intervalRef,  \* intervalRef.current
  timers,       \* intervals of the runtime that were set and not cleared
  persisted,    \* localStorage['arachne:lastJobId']
  inflight,     \* bag of status requests whose continuation has not run
  server        \* the endpoint's job documents, by job id

vars == <<phase, jobId, job, isLoading, error, isPolling, intervalRef,
          timers, persisted, inflight, server>>

\* The summary section of the job page (JobStatusPage).
VARIABLES
  summary,        \* useState summary
  isSummarizing,  \* useState isSummarizing
  summaryError,   \* useState summaryError
  sessions,       \* generateSummary calls that have not returned
  generation      \* generateSummary calls made so far

summaryVars == <<summary, isSummarizing, summaryError, sessions, generation>>

\* One request to the summarize route (POST of app/api/summarize/route.ts).
VARIABLES
  request,        \* the body the route was posted
  response,       \* what POST returned to its caller
  relayPc,        \* where the handler, then its piping task, stands
  upstream,       \* the engine: calls made, body to come, chunks read
  value,          \* the chunk reader.read() handed to the piping task
  output,         \* what was written to the writable side, in order
  closes,         \* calls of writer.close()
  downstream      \* the readable side: "open", or "gone" once cancelled

relayVars == <<request, response, relayPc, upstream, value, output, closes,
               downstream>>

\* The new-result badges of the job page (JobStatusPage).
VARIABLES
  previousResultCount,  \* useState previousResultCount
  newResultIndices,     \* useState newResultIndices
  expiries              \* setTimeout callbacks that have not run, in order

deltaVars == <<previousResultCount, newResultIndices, expiries>>

allVars == <<vars, deltaVars, deltaVars, summaryVars, relayVars>>

\* Nothing was counted or marked: the state of the page's first render.
DeltaIdle ==
  /\ previousResultCount = 0
  /\ newResultIndices = {}
  /\ expiries = << >>

\* The page's text values are sequences of letters; null, undefined and ''
\* are all falsy to the code that reads them, and are one value here.
NoText == << >>

\* No summary was asked for: the state of the page's first render.
SummaryIdle ==
  /\ summary = NoText
  /\ isSummarizing = FALSE
  /\ summaryError = Null
  /\ sessions = {}
  /\ generation = 0

\* What the route reads of the body it is posted.
NoResults == [kind |-> "none", items |-> << >>]
NoRequest == [jobId |-> FALSE, results |-> NoResults, stream |-> FALSE]
NoResponse == [status |-> 0, body |-> "none", error |-> Null]
NoUpstream ==
  [calls |-> 0, hasBody |-> FALSE, body |-> << >>, ending |-> "end",
   read |-> << >>]
NoChunk == << >>

\* The route was posted nothing.
RelayIdle ==
  /\ request = NoRequest
  /\ response = NoResponse
  /\ relayPc = "idle"
  /\ upstream = NoUpstream
  /\ value = NoChunk
  /\ output = << >>
  /\ closes = 0
  /\ downstream = "open"

\* The jobs that exist: the ids the consumer can navigate to.
JobIds == DOMAIN server

\* ------------------------------------------------------------ React state
\* A state setter of a component that was unmounted has no effect: its
\* state was discarded, it renders no more and exposes nothing.
Set(new, old) == IF phase = "unmounted" THEN old ELSE new

\* --------------------------------------------------------------- helpers
Outstanding == BagCardinality(inflight)
Requests == BagToSet(inflight)
Request(kind, id) == [kind |-> kind, id |-> id, res |-> Unanswered]
Issue(kind, id) == inflight (+) SetToBag({Request(kind, id)})
Remove(r) == inflight (-) SetToBag({r})

\* Mutant: clearPoll forgets the handle without clearing its interval.
ClearedTimersKept == timers

\* clearPoll: the interval intervalRef names is cleared.
ClearedTimers == {t \in timers : t.h # intervalRef}

\* The handle setInterval returns: one no live interval has.
FreeHandles(ts) == {h \in Handles : \A t \in ts : t.h # h}
NewHandle(ts) == CHOOSE h \in FreeHandles(ts) : \A g \in FreeHandles(ts) : h <= g

\* ------------------------------------------------------- status endpoint
\* A job moves pending -> running -> completed | failed and gains results
\* only while it runs, at most one for each of the cap urls it was asked for.
ServerAdvance(id) ==
  /\ \/ /\ server[id].status = "pending"
        /\ server' = [server EXCEPT ![id].status = "running"]
     \/ /\ server[id].status = "running"
        /\ server[id].n < server[id].cap
        /\ server' = [server EXCEPT ![id].n = @ + 1]
     \/ /\ server[id].status = "running"
        /\ \E st \in Terminal : server' = [server EXCEPT ![id].status = st]
  /\ UNCHANGED <<phase, jobId, job, isLoading, error, isPolling, intervalRef,
                 timers, persisted, inflight,
                 deltaVars, summaryVars, relayVars>>

\* An outstanding request is answered: with the job document as it is now,
\* with a failure (network error, server error, unparsable body), or with
\* not-found.  The answer then travels for an arbitrary time.
Answers(id) == {OkRes(server[id].status, server[id].n), FailRes, NotFoundRes}

ServerRespond(r, res) ==
  /\ r.res = Unanswered
  /\ res \in Answers(r.id)
  /\ inflight' = Remove(r) (+) SetToBag({[r EXCEPT !.res = res]})
  /\ UNCHANGED <<phase, jobId, job, isLoading, error, isPolling, intervalRef,
                 timers, persisted, server,
                 deltaVars, summaryVars, relayVars>>

\* ------------------------------------------------------------ fetchStatus
\* The value fetchStatus returns for response r: data.job, or null.
Returned(r) ==
  IF r.res.tag = "ok" THEN Job(r.id, r.res.status, r.res.n) ELSE NoJob

\* The message of the error thrown for a response that is not a job.
Message(r) == IF r.res.tag = "notfound" THEN ErrNotFound ELSE ErrTransient

\* Mutant: the catch branch blanks the snapshot.
JobAfterFetchBlank(r) == IF r.res.tag = "ok" THEN Returned(r) ELSE NoJob

\* Mutant: a job document is merged into the snapshot held, which keeps
\* the longer result list.
JobAfterFetchMerged(r) ==
  IF r.res.tag = "ok"
  THEN Job(r.id, r.res.status, IF job.n > r.res.n THEN job.n ELSE r.res.n)
  ELSE job

\* setJob(data.job) on success; the catch branch leaves the snapshot.
JobAfterFetch(r) == IF r.res.tag = "ok" THEN Returned(r) ELSE job

\* setError(null) on success, setError(message) in the catch branch.
ErrorAfterFetch(r) == IF r.res.tag = "ok" THEN Null ELSE Message(r)

\* The state fetchStatus sets when response r arrives (try/catch/finally).
FetchApplied(r) ==
  /\ job' = Set(JobAfterFetch(r), job)
  /\ error' = Set(ErrorAfterFetch(r), error)
  /\ isLoading' = Set(FALSE, isLoading)

\* ------------------------------------------------------------------ Init
\* The state of the first render, with the jobs ids existing and each job
\* asked for cap urls.
InitJobs(ids, cap) ==
  /\ phase = "constructed"
  /\ jobId \in ids \cup {Null}              \* initialJobId ?? null
  /\ job = NoJob
  /\ isLoading = (jobId # Null)             \* !!initialJobId
  /\ error = Null
  /\ isPolling = FALSE
  /\ intervalRef = NoTimer
  /\ timers = {}
  /\ persisted \in ids \cup {Null}          \* left by an earlier page life
  /\ inflight = EmptyBag
  /\ server = [id \in ids |-> [status |-> "pending", n |-> 0, cap |-> cap]]
  /\ DeltaIdle
  /\ SummaryIdle
  /\ RelayIdle

\* One job, with results.
Init == InitJobs({"A"}, MaxResults)

\* Two jobs the consumer switches between; their results play no part.
InitSwitch == InitJobs({"A", "B"}, 0)

\* ----------------------------------------------------------------- start
\* start(id) up to its await: setJobId, persistJobId, and fetchStatus up to
\* the fetch it issues.
StartBody(id) ==
  /\ Outstanding < MaxInFlight
  /\ jobId' = Set(id, jobId)
  /\ persisted' = id
  /\ isLoading' = Set(TRUE, isLoading)
  /\ inflight' = Issue("start", id)
  /\ UNCHANGED <<job, error, isPolling, intervalRef, timers, server,
                 deltaVars, summaryVars, relayVars>>

\* The consumer calls start(id), or the initialJobId prop changes to id.
StartCall(id) ==
  /\ phase = "mounted"
  /\ StartBody(id)
  /\ UNCHANGED phase

\* Mutant: the first commit does not resume from the persisted id.
MountEffectsNoResume ==
  /\ phase = "constructed"
  /\ phase' = "mounted"
  /\ IF jobId # Null THEN StartBody(jobId)
     ELSE UNCHANGED <<jobId, job, isLoading, error, isPolling, intervalRef,
                      timers, persisted, inflight, server,
                      deltaVars, summaryVars, relayVars>>

\* The effects of the first commit: auto-resume from the persisted id when
\* no job id is set, and start(initialJobId) when one was passed.
MountEffects ==
  /\ phase = "constructed"
  /\ phase' = "mounted"
  /\ IF jobId # Null THEN StartBody(jobId)
     ELSE IF persisted # Null THEN StartBody(persisted)
     ELSE UNCHANGED <<jobId, job, isLoading, error, isPolling, intervalRef,
                      timers, persisted, inflight, server,
                      deltaVars, summaryVars, relayVars>>

\* Whether start schedules the repeat after its first fetch returned latest.
StartPolls(latest) == latest # NoJob /\ latest.status \in NonTerminal

\* Whether start clears the persisted id after its first fetch.
StartForgets(latest) == latest # NoJob /\ latest.status \in Terminal

\* The rest of start(id) once its first fetch has returned.
StartResumes(r) ==
  /\ r.kind = "start"
  /\ r.res # Unanswered
  /\ inflight' = Remove(r)
  /\ FetchApplied(r)
  /\ IF StartPolls(Returned(r))
     THEN \* setIsPolling(true); clearPoll(); intervalRef.current = setInterval
          /\ FreeHandles(ClearedTimers) # {}
          /\ isPolling' = Set(FALSE, Set(TRUE, isPolling))
          /\ intervalRef' = NewHandle(ClearedTimers)
          /\ timers' = ClearedTimers \cup
                         {[h |-> NewHandle(ClearedTimers), id |-> r.id]}
          /\ UNCHANGED persisted
     ELSE \* clearPoll(); persistJobId(null) for a terminal job
          /\ isPolling' = Set(FALSE, isPolling)
          /\ intervalRef' = NoTimer
          /\ timers' = ClearedTimers
          /\ persisted' = IF StartForgets(Returned(r)) THEN Null ELSE persisted
  /\ UNCHANGED <<phase, jobId, server,
                 deltaVars, summaryVars, relayVars>>

\* ------------------------------------------------------------ poll timer
\* The interval callback of timer t up to its await.
Tick(t) ==
  /\ t \in timers
  /\ Outstanding < MaxInFlight
  /\ isLoading' = Set(TRUE, isLoading)
  /\ inflight' = Issue("tick", t.id)
  /\ UNCHANGED <<phase, jobId, job, error, isPolling, intervalRef, timers,
                 persisted, server,
                 deltaVars, summaryVars, relayVars>>

\* Mutant: the interval callback also stops when its fetch failed.
TickStopsOnFailure(updated) == updated = NoJob \/ updated.status \in Terminal

\* Whether the interval callback stops polling after its fetch returned
\* updated.
TickStops(updated) == updated # NoJob /\ updated.status \in Terminal

\* The rest of the interval callback once its fetch has returned.
TickResumes(r) ==
  /\ r.kind = "tick"
  /\ r.res # Unanswered
  /\ inflight' = Remove(r)
  /\ FetchApplied(r)
  /\ IF TickStops(Returned(r))
     THEN \* clearPoll(); persistJobId(null)
          /\ isPolling' = Set(FALSE, isPolling)
          /\ intervalRef' = NoTimer
          /\ timers' = ClearedTimers
          /\ persisted' = Null
     ELSE UNCHANGED <<isPolling, intervalRef, timers, persisted>>
  /\ UNCHANGED <<phase, jobId, server,
                 deltaVars, summaryVars, relayVars>>

\* --------------------------------------------------------------- refetch
Refetch ==
  /\ phase = "mounted"
  /\ jobId # Null
  /\ Outstanding < MaxInFlight
  /\ isLoading' = Set(TRUE, isLoading)
  /\ inflight' = Issue("refetch", jobId)
  /\ UNCHANGED <<phase, jobId, job, error, isPolling, intervalRef, timers,
                 persisted, server,
                 deltaVars, summaryVars, relayVars>>

RefetchResumes(r) ==
  /\ r.kind = "refetch"
  /\ r.res # Unanswered
  /\ inflight' = Remove(r)
  /\ FetchApplied(r)
  /\ UNCHANGED <<phase, jobId, isPolling, intervalRef, timers, persisted,
                 server,
                 deltaVars, summaryVars, relayVars>>

\* ------------------------------------------------- stop, clear, teardown
Stop ==
  /\ phase = "mounted"
  /\ isPolling' = Set(FALSE, isPolling)
  /\ intervalRef' = NoTimer
  /\ timers' = ClearedTimers
  /\ UNCHANGED <<phase, jobId, job, isLoading, error, persisted, inflight,
                 server,
                 deltaVars, summaryVars, relayVars>>

Clear ==
  /\ phase = "mounted"
  /\ isPolling' = Set(FALSE, isPolling)
  /\ intervalRef' = NoTimer
  /\ timers' = ClearedTimers
  /\ jobId' = Set(Null, jobId)
  /\ job' = Set(NoJob, job)
  /\ error' = Set(Null, error)
  /\ persisted' = Null
  /\ UNCHANGED <<phase, isLoading, inflight, server,
                 deltaVars, summaryVars, relayVars>>

\* The consumer is torn down: the cleanup of the unmount effect runs
\* clearPoll, and React discards the component's state, which is exposed to
\* nobody from here on.  The ref, the runtime's timers, the outstanding
\* requests and localStorage live on.
Unmount ==
  /\ phase = "mounted"
  /\ phase' = "unmounted"
  /\ intervalRef' = NoTimer
  /\ timers' = ClearedTimers
  /\ jobId' = Null
  /\ job' = NoJob
  /\ isLoading' = FALSE
  /\ error' = Null
  /\ isPolling' = FALSE
  /\ UNCHANGED <<persisted, inflight, server,
                 deltaVars, summaryVars, relayVars>>

\* ------------------------------------------------------------------ Next
Next ==
  \/ MountEffects
  \/ \E id \in JobIds : StartCall(id)
  \/ \E r \in Requests : StartResumes(r)
  \/ \E t \in timers : Tick(t)
  \/ \E r \in Requests : TickResumes(r)
  \/ Refetch
  \/ \E r \in Requests : RefetchResumes(r)
  \/ Stop
  \/ Clear
  \/ Unmount
  \/ \E id \in JobIds : ServerAdvance(id)
  \/ \E r \in Requests : \E res \in Answers(r.id) : ServerRespond(r, res)

Spec == Init /\ [][Next]_allVars

SpecSwitch == InitSwitch /\ [][Next]_allVars

\* --------------------------------------------------------- fair polling
\* The tracker left alone after start(): no stop(), clear() or teardown,
\* every request is answered with the job document, and the interval
\* callbacks, the endpoint, the answers and the continuations all get
\* their turn.
OkAnswer(id) == OkRes(server[id].status, server[id].n)

NextLive ==
  \/ MountEffects
  \/ \E r \in Requests : StartResumes(r)
  \/ \E t \in timers : Tick(t)
  \/ \E r \in Requests : TickResumes(r)
  \/ \E id \in JobIds : ServerAdvance(id)
  \/ \E r \in Requests : ServerRespond(r, OkAnswer(r.id))

Fairness ==
  /\ WF_allVars(MountEffects)
  /\ WF_allVars(\E r \in Requests : StartResumes(r))
  /\ WF_allVars(\E t \in timers : Tick(t))
  /\ WF_allVars(\E r \in Requests : TickResumes(r))
  /\ WF_allVars(\E id \in JobIds : ServerAdvance(id))
  /\ WF_allVars(\E r \in Requests : ServerRespond(r, OkAnswer(r.id)))

\* The consumer passes the id of its job; nothing was persisted.
InitLive == InitJobs({"A"}, MaxResults) /\ jobId = "A" /\ persisted = Null

SpecLive == InitLive /\ [][NextLive]_allVars /\ Fairness

\* =================================================================
\* The streaming summary client: generateSummary of the job page
\* =================================================================
MaxFrames == 2        \* frames in the body of one event stream
MaxGenerations == 2   \* generateSummary calls in one life of the page

\* ---------------------------------------------------------------- values
Truthy(text) == text # NoText
NoMessage == ""                      \* no error field in a payload

\* The object a frame's payload parses to, reduced to the fields the client
\* reads; a field that is absent holds the falsy value.
Payload(chunk, done, full, err) ==
  [chunk |-> chunk, done |-> done, fullSummary |-> full, error |-> err]
NoPayload == Payload(NoText, FALSE, NoText, NoMessage)

\* Messages that end up in summaryError.
ErrGenerate == "Failed to generate summary"
ErrStream == "Stream error"
ErrNetwork == "network error"

\* The text fragments and the authoritative full text the engine sends.
Fragments == {<<"a">>, <<"b">>}
FullText == <<"s">>

\* The payloads of a body: a chunk, the end without and with the full text,
\* and the relay's terminal error.
Payloads ==
  {Payload(f, FALSE, NoText, NoMessage) : f \in Fragments}
    \cup {Payload(NoText, TRUE, NoText, NoMessage),
          Payload(NoText, TRUE, FullText, NoMessage),
          Payload(NoText, TRUE, NoText, ErrStream)}

\* A frame of the body: a payload, whole or cut off before its end.
Frame(p, whole) == [p |-> p, whole |-> whole]
Frames ==
  {Frame(p, TRUE) : p \in Payloads}
    \cup {Frame(Payload(<<"a">>, FALSE, NoText, NoMessage), FALSE)}

RECURSIVE SeqsUpTo(_, _)
SeqsUpTo(S, n) ==
  IF n = 0 THEN {<< >>}
  ELSE SeqsUpTo(S, n - 1)
         \cup {Append(q, x) : q \in {r \in SeqsUpTo(S, n - 1) : Len(r) = n - 1},
                              x \in S}

\* The bodies the summarize route can answer with.
Streams == SeqsUpTo(Frames, MaxFrames)

\* ------------------------------------------------------------- the wire
\* The text of a body is a sequence of pieces no read cuts further: the
\* prefix 'data: ', the two halves of a payload's JSON text, the newline.
Piece(t, p) == [t |-> t, p |-> p]
Prefix == Piece("data: ", NoPayload)
NL == Piece("\n", NoPayload)

\* `data: ${JSON.stringify(payload)}\n\n`, or that text cut off in the
\* middle of the payload.
Encode(frame) ==
  IF frame.whole
  THEN <<Prefix, Piece("{", frame.p), Piece("}", frame.p), NL, NL>>
  ELSE <<Prefix, Piece("{", frame.p), NL, NL>>

RECURSIVE Wire(_)
Wire(stream) ==
  IF stream = << >> THEN << >>
  ELSE Encode(Head(stream)) \o Wire(Tail(stream))

\* text.split('\n')
RECURSIVE Split(_)
Split(text) ==
  IF \A i \in 1..Len(text) : text[i] # NL THEN <<text>>
  ELSE LET i == CHOOSE k \in 1..Len(text) :
                  text[k] = NL /\ \A j \in 1..(k - 1) : text[j] # NL
       IN <<SubSeq(text, 1, i - 1)>> \o Split(SubSeq(text, i + 1, Len(text)))

\* line.startsWith('data: ')
StartsWithData(line) == Len(line) >= 1 /\ line[1] = Prefix

\* JSON.parse(line.slice(6)) returns: the text is one whole payload.
Parses(line) ==
  /\ Len(line) = 3
  /\ line[2].t = "{"
  /\ line[3] = Piece("}", line[2].p)
Parsed(line) == line[2].p

\* ------------------------------------------------------- frame handling
\* What generateSummary holds while it reads: its local accumulatedSummary
\* and the summary state it sets.
Text(acc, shown) == [acc |-> acc, summary |-> shown]

\* The try block for a payload that carries no error: append the chunk and
\* show the accumulated text, then show the full text of a done payload.
Applied(st, data) ==
  LET acc == IF Truthy(data.chunk) THEN st.acc \o data.chunk ELSE st.acc
      shown == IF Truthy(data.chunk) THEN acc ELSE st.summary
  IN Text(acc, IF data.done /\ Truthy(data.fullSummary)
               THEN data.fullSummary ELSE shown)

\* The try block throws: JSON.parse does, or `throw new Error(data.error)`.
Throws(line) == ~Parses(line) \/ Parsed(line).error # NoMessage

\* The body of the for loop for one line; the inner catch swallows whatever
\* the try block throws.
HandleLine(st, line) ==
  IF ~StartsWithData(line) THEN st
  ELSE IF Throws(line) THEN st
  ELSE Applied(st, Parsed(line))

RECURSIVE HandleLines(_, _)
HandleLines(st, lines) ==
  IF lines = << >> THEN st
  ELSE HandleLines(HandleLine(st, Head(lines)), Tail(lines))

\* --------------------------------------------------------------- sessions
\* A generateSummary call that has not returned: awaiting the response of
\* its fetch ("fetching"), or in the read loop over the body stream.
Session(gen, stage, stream, pos, acc) ==
  [gen |-> gen, stage |-> stage, stream |-> stream, pos |-> pos, acc |-> acc]

\* The pieces of its body a reading session has still to be handed.
Remaining(s) == Len(Wire(s.stream)) - s.pos

\* The lines of the segment a read of n pieces hands session s.
Lines(s, n) == Split(SubSeq(Wire(s.stream), s.pos + 1, s.pos + n))

\* The page with no job, with a completed job without results, or with a
\* completed job that has results: only the last renders the summary
\* section.
InitSummary ==
  /\ phase = "mounted"
  /\ jobId = "A"
  /\ job \in {NoJob, Job("A", "completed", 0),
              Job("A", "completed", MaxResults)}
  /\ isLoading = FALSE
  /\ error = Null
  /\ isPolling = FALSE
  /\ intervalRef = NoTimer
  /\ timers = {}
  /\ persisted = Null
  /\ inflight = EmptyBag
  /\ server = [id \in {"A"} |->
                 [status |-> "completed", n |-> MaxResults, cap |-> MaxResults]]
  /\ DeltaIdle
  /\ SummaryIdle
  /\ RelayIdle

\* What JobStatusPage returns from its render: the full-page loading view
\* while a status fetch is under way, the full-page error view when the
\* tracker holds an error or no snapshot, and the job page otherwise.
View ==
  IF isLoading THEN "loading"
  ELSE IF error # Null \/ job = NoJob THEN "error"
  ELSE "job"

\* Mutant: the generate buttons are rendered while a summary is generated.
GenerateOfferedAlways ==
  View = "job" /\ job.status = "completed" /\ job.n > 0

\* The summary section renders a generate or regenerate button.
GenerateOffered ==
  /\ View = "job"
  /\ job.status = "completed" /\ job.n > 0
  /\ ~isSummarizing

\* generateSummary goes past its first test: the job has results.
HasResults == job # NoJob /\ job.n > 0

\* generateSummary up to its await of fetch('/api/summarize').
GenerateSummary ==
  /\ GenerateOffered
  /\ HasResults
  /\ generation < MaxGenerations
  /\ summary' = NoText
  /\ summaryError' = Null
  /\ isSummarizing' = TRUE
  /\ generation' = generation + 1
  /\ sessions' = sessions \cup
                   {Session(generation + 1, "fetching", << >>, 0, NoText)}
  /\ UNCHANGED <<vars, deltaVars, relayVars>>

\* Mutant: generateSummary returns without its finally block.
ReturnsBusy(s) ==
  /\ UNCHANGED isSummarizing
  /\ sessions' = sessions \ {s}
  /\ UNCHANGED generation

\* generateSummary returns: the finally block has run.
Returns(s) ==
  /\ isSummarizing' = FALSE
  /\ sessions' = sessions \ {s}
  /\ UNCHANGED generation

\* fetch rejects, or the response is not ok and carries msg: the catch
\* block shows the message.
RequestFails(s, msg) ==
  /\ s \in sessions
  /\ s.stage = "fetching"
  /\ summaryError' = msg
  /\ Returns(s)
  /\ UNCHANGED <<summary, vars, deltaVars, relayVars>>

\* The response is a JSON document {summary: text}.
FallbackArrives(s, text) ==
  /\ s \in sessions
  /\ s.stage = "fetching"
  /\ summary' = text
  /\ Returns(s)
  /\ UNCHANGED <<summaryError, vars, deltaVars, relayVars>>

\* The response is an event stream, whose body will be stream.
StreamOpens(s, stream) ==
  /\ s \in sessions
  /\ s.stage = "fetching"
  /\ sessions' = (sessions \ {s}) \cup
                   {Session(s.gen, "reading", stream, 0, NoText)}
  /\ UNCHANGED <<summary, isSummarizing, summaryError, generation, vars, deltaVars,
                 relayVars>>

\* reader.read() hands the next n pieces of the body: the for loop runs
\* over the lines of this segment.
ReadArrives(s, n) ==
  /\ s \in sessions
  /\ s.stage = "reading"
  /\ n \in 1..Remaining(s)
  /\ LET st == HandleLines(Text(s.acc, summary), Lines(s, n))
     IN /\ summary' = st.summary
        /\ sessions' = (sessions \ {s}) \cup
                         {Session(s.gen, "reading", s.stream, s.pos + n, st.acc)}
  /\ UNCHANGED <<isSummarizing, summaryError, generation, vars, deltaVars, relayVars>>

\* reader.read() reports done: the body ended.
StreamEnds(s) ==
  /\ s \in sessions
  /\ s.stage = "reading"
  /\ Remaining(s) = 0
  /\ Returns(s)
  /\ UNCHANGED <<summary, summaryError, vars, deltaVars, relayVars>>

\* Mutant: a failed read of the summary stream also stops the polling.
ReadFailsStopsPolling(s) ==
  /\ s \in sessions
  /\ s.stage = "reading"
  /\ summaryError' = ErrNetwork
  /\ Returns(s)
  /\ isPolling' = FALSE
  /\ intervalRef' = NoTimer
  /\ timers' = {}
  /\ UNCHANGED <<summary, phase, jobId, job, isLoading, error, persisted,
                 inflight, server, deltaVars, relayVars>>

\* reader.read() rejects: the connection dropped.
ReadFails(s) ==
  /\ s \in sessions
  /\ s.stage = "reading"
  /\ summaryError' = ErrNetwork
  /\ Returns(s)
  /\ UNCHANGED <<summary, vars, deltaVars, relayVars>>

\* The clear button under a shown summary.
ClearSummary ==
  /\ ~isSummarizing
  /\ Truthy(summary)
  /\ summary' = NoText
  /\ summaryError' = Null
  /\ UNCHANGED <<isSummarizing, sessions, generation, vars, deltaVars, relayVars>>

NextSummary ==
  \/ GenerateSummary
  \/ \E s \in sessions : \E msg \in {ErrGenerate, ErrNetwork} :
       RequestFails(s, msg)
  \/ \E s \in sessions : FallbackArrives(s, FullText)
  \/ \E s \in sessions : \E stream \in Streams : StreamOpens(s, stream)
  \/ \E s \in sessions : \E n \in 1..Remaining(s) : ReadArrives(s, n)
  \/ \E s \in sessions : StreamEnds(s)
  \/ \E s \in sessions : ReadFails(s)
  \/ ClearSummary

SpecSummary == InitSummary /\ [][NextSummary]_allVars

\* ---------------------------------------------------------- the whole page
\* The tracker polling and the page generating summaries at the same
\* time, with one stream of a chunk frame and a done frame.
StreamShown ==
  <<Frame(Payload(<<"a">>, FALSE, NoText, NoMessage), TRUE),
    Frame(Payload(NoText, TRUE, FullText, NoMessage), TRUE)>>

NextPage ==
  \/ MountEffects
  \/ \E id \in JobIds : StartCall(id)
  \/ \E r \in Requests : StartResumes(r)
  \/ \E t \in timers : Tick(t)
  \/ \E r \in Requests : TickResumes(r)
  \/ \E id \in JobIds : ServerAdvance(id)
  \/ \E r \in Requests : \E res \in Answers(r.id) : ServerRespond(r, res)
  \/ GenerateSummary
  \/ \E s \in sessions : RequestFails(s, ErrGenerate)
  \/ \E s \in sessions : StreamOpens(s, StreamShown)
  \/ \E s \in sessions : ReadArrives(s, 1)
  \/ \E s \in sessions : StreamEnds(s)
  \/ \E s \in sessions : ReadFails(s)

\* The page is given the id of its job, which was asked for one url, and
\* nothing was persisted.
InitPage == InitJobs({"A"}, 1) /\ jobId = "A" /\ persisted = Null

SpecPage == InitPage /\ [][NextPage]_allVars

\* =================================================================
\* The stream relay: POST of app/api/summarize/route.ts
\* =================================================================
MaxChunks == 2        \* chunks in the body of one upstream response
MaxItems == 2         \* results in the body of one request

\* ---------------------------------------------------------------- values
ErrJobId == "Job ID is required"
ErrResults == "Results array is required and must not be empty"
ErrContent == "No content found in results to summarize"
ErrStart == "Failed to start streaming summary"
ErrNoBody == "No response body"

BadRequest == 400
ServerError == 500
Ok == 200
Unavailable == 503    \* a non-success status of the engine

\* The content field of a result: absent, empty, blank, or text with
\* blanks around it.
Undefined == "undefined"
Contents == {Undefined, "", " ", " x "}

\* content.trim()
Trim(c) == IF c = " x " THEN "x" ELSE IF c = " " THEN "" ELSE c

\* Mutant: a content of blanks only counts as content.
NonBlankUntrimmed(c) == c # Undefined /\ c # ""

\* result.content && result.content.trim().length > 0
NonBlank(c) == c # Undefined /\ c # "" /\ Trim(c) # ""

\* The content extractContent returns: the trimmed contents of the results
\* that have any, in order (joined by a separator into one string, which
\* is empty exactly when there is no piece).
RECURSIVE ExtractContent(_)
ExtractContent(items) ==
  IF items = << >> THEN << >>
  ELSE IF NonBlank(Head(items))
       THEN <<Trim(Head(items))>> \o ExtractContent(Tail(items))
       ELSE ExtractContent(Tail(items))

\* The results field of a body: missing, not an array, or an array of
\* results, of which the route reads the contents.
Results ==
  {[kind |-> k, items |-> << >>] : k \in {"missing", "notarray"}}
    \cup {[kind |-> "array", items |-> q] : q \in SeqsUpTo(Contents, MaxItems)}

\* The bodies the route is posted: the job id present or not, the results,
\* the stream flag; or a body that is not JSON.
Unparsable ==
  [jobId |-> FALSE, results |-> [kind |-> "unparsable", items |-> << >>],
   stream |-> FALSE]
Posts == [jobId : BOOLEAN, results : Results, stream : BOOLEAN] \cup {Unparsable}

\* NextResponse.json({error}, {status}), the summary document, and the
\* Response over the readable side.
JsonError(status, msg) == [status |-> status, body |-> "json", error |-> msg]
JsonSummary == [status |-> Ok, body |-> "json", error |-> Null]
StreamResponse == [status |-> Ok, body |-> "stream", error |-> Null]

\* The chunks the engine's body is read in: each holds one chunk frame.
Chunks == {Encode(Frame(Payload(f, FALSE, NoText, NoMessage), TRUE)) :
             f \in Fragments}
Bodies == SeqsUpTo(Chunks, MaxChunks)

\* encoder.encode(`data: ${JSON.stringify({ error: msg, done: true })}\n\n`)
ErrorFrame(msg) == Encode(Frame(Payload(NoText, TRUE, NoText, msg), TRUE))

InitRelay ==
  /\ phase = "mounted"
  /\ jobId = "A"
  /\ job = Job("A", "completed", MaxResults)
  /\ isLoading = FALSE
  /\ error = Null
  /\ isPolling = FALSE
  /\ intervalRef = NoTimer
  /\ timers = {}
  /\ persisted = Null
  /\ inflight = EmptyBag
  /\ server = [id \in {"A"} |->
                 [status |-> "completed", n |-> MaxResults, cap |-> MaxResults]]
  /\ DeltaIdle
  /\ SummaryIdle
  /\ RelayIdle

\* ----------------------------------------------------------------- POST
\* The answer POST gives before it calls the engine, if any.
Rejection(req) ==
  IF req = Unparsable THEN JsonError(ServerError, ErrGenerate)
  ELSE IF ~req.jobId THEN JsonError(BadRequest, ErrJobId)
  ELSE IF req.results.kind # "array" \/ req.results.items = << >>
       THEN JsonError(BadRequest, ErrResults)
  ELSE IF ExtractContent(req.results.items) = << >>
       THEN JsonError(BadRequest, ErrContent)
  ELSE NoResponse

\* POST up to its return or to its await of the fetch to the engine.
Post(req) ==
  /\ relayPc = "idle"
  /\ request' = req
  /\ IF Rejection(req) # NoResponse
     THEN /\ response' = Rejection(req)
          /\ relayPc' = "responded"
          /\ UNCHANGED upstream
     ELSE /\ upstream' = [upstream EXCEPT !.calls = @ + 1]
          /\ relayPc' = "calling"
          /\ UNCHANGED response
  /\ UNCHANGED <<value, output, closes, downstream, vars, deltaVars, summaryVars>>

\* The fetch to the engine rejects: the outer catch answers.
UpstreamRejects ==
  /\ relayPc = "calling"
  /\ response' = JsonError(ServerError, ErrGenerate)
  /\ relayPc' = "responded"
  /\ UNCHANGED <<request, upstream, value, output, closes, downstream, vars,
                 deltaVars, summaryVars>>

\* The engine answers with a non-success status, with or without a message.
UpstreamRefuses(msg) ==
  /\ relayPc = "calling"
  /\ response' = JsonError(Unavailable,
                           IF msg # NoMessage THEN msg
                           ELSE IF request.stream THEN ErrStart ELSE ErrGenerate)
  /\ relayPc' = "responded"
  /\ UNCHANGED <<request, upstream, value, output, closes, downstream, vars,
                 deltaVars, summaryVars>>

\* The engine answers ok.  A streaming request starts the piping task,
\* which runs to its first await before POST returns the Response over the
\* readable side; another request is answered with the summary document.
UpstreamAnswers(hasBody, body, ending) ==
  /\ relayPc = "calling"
  /\ IF request.stream
     THEN /\ upstream' = [upstream EXCEPT !.hasBody = hasBody,
                                          !.body = IF hasBody THEN body ELSE << >>,
                                          !.ending = ending]
          /\ response' = StreamResponse
          /\ relayPc' = IF hasBody THEN "read" ELSE "nobody"
     ELSE /\ response' = JsonSummary
          /\ relayPc' = "responded"
          /\ UNCHANGED upstream
  /\ UNCHANGED <<request, value, output, closes, downstream, vars,
                 deltaVars, summaryVars>>

\* ------------------------------------------------------ the piping task
\* await reader.read() settles: a chunk, done, or a rejection.
ReadSettles ==
  /\ relayPc = "read"
  /\ IF upstream.body # << >>
     THEN /\ value' = Head(upstream.body)
          /\ upstream' = [upstream EXCEPT !.body = Tail(@),
                                          !.read = Append(@, Head(upstream.body))]
          /\ relayPc' = "write"
     ELSE /\ relayPc' = IF upstream.ending = "end" THEN "finally" ELSE "catch"
          /\ UNCHANGED <<value, upstream>>
  /\ UNCHANGED <<request, response, output, closes, downstream, vars,
                 deltaVars, summaryVars>>

\* Mutant: the loop writes each chunk twice.
WriteSettlesTwice ==
  /\ relayPc = "write"
  /\ IF downstream = "open"
     THEN /\ output' = Append(Append(output, value), value)
          /\ relayPc' = "read"
     ELSE /\ relayPc' = "catch"
          /\ UNCHANGED output
  /\ value' = NoChunk
  /\ UNCHANGED <<request, response, upstream, closes, downstream, vars,
                 deltaVars, summaryVars>>

\* await writer.write(value) settles: written, or rejected because the
\* readable side was cancelled.
WriteSettles ==
  /\ relayPc = "write"
  /\ IF downstream = "open"
     THEN /\ output' = Append(output, value)
          /\ relayPc' = "read"
     ELSE /\ relayPc' = "catch"
          /\ UNCHANGED output
  /\ value' = NoChunk
  /\ UNCHANGED <<request, response, upstream, closes, downstream, vars,
                 deltaVars, summaryVars>>

\* Mutant: the catch block writes nothing before the stream is closed.
CatchSilent ==
  /\ relayPc = "catch"
  /\ relayPc' = "finally"
  /\ UNCHANGED <<request, response, upstream, value, output, closes,
                 downstream, vars, deltaVars, summaryVars>>

\* The catch block: await writer.write(the 'Stream error' frame); the
\* finally block follows whether this write settles or rejects.
CatchWrites ==
  /\ relayPc = "catch"
  /\ output' = IF downstream = "open"
               THEN Append(output, ErrorFrame(ErrStream)) ELSE output
  /\ relayPc' = "finally"
  /\ UNCHANGED <<request, response, upstream, value, closes, downstream,
                 vars, deltaVars, summaryVars>>

\* How the piping task ends after writer.close(): the close of a cancelled
\* stream rejects.
Ended == IF downstream = "open" THEN "ended" ELSE "rejected"

\* The finally block: await writer.close().
FinallyCloses ==
  /\ relayPc = "finally"
  /\ closes' = closes + 1
  /\ relayPc' = Ended
  /\ UNCHANGED <<request, response, upstream, value, output, downstream,
                 vars, deltaVars, summaryVars>>

\* No reader: await writer.write(the 'No response body' frame), outside any
\* try; when it rejects the task ends there.
NoBodyWrites ==
  /\ relayPc = "nobody"
  /\ IF downstream = "open"
     THEN /\ output' = Append(output, ErrorFrame(ErrNoBody))
          /\ relayPc' = "nobodyClose"
     ELSE /\ relayPc' = "rejected"
          /\ UNCHANGED output
  /\ UNCHANGED <<request, response, upstream, value, closes, downstream,
                 vars, deltaVars, summaryVars>>

\* No reader: await writer.close(); return.
NoBodyCloses ==
  /\ relayPc = "nobodyClose"
  /\ closes' = closes + 1
  /\ relayPc' = Ended
  /\ UNCHANGED <<request, response, upstream, value, output, downstream,
                 vars, deltaVars, summaryVars>>

\* The caller goes away while the piping task runs: the readable side is
\* cancelled.
DownstreamCancels ==
  /\ response = StreamResponse
  /\ relayPc \notin {"ended", "rejected"}
  /\ downstream = "open"
  /\ downstream' = "gone"
  /\ UNCHANGED <<request, response, relayPc, upstream, value, output, closes,
                 vars, deltaVars, summaryVars>>

NextRelay ==
  \/ \E req \in Posts : Post(req)
  \/ UpstreamRejects
  \/ \E msg \in {NoMessage, ErrGenerate} : UpstreamRefuses(msg)
  \/ \E hasBody \in BOOLEAN : \E body \in Bodies : \E ending \in {"end", "fail"} :
       UpstreamAnswers(hasBody, body, ending)
  \/ ReadSettles
  \/ WriteSettles
  \/ CatchWrites
  \/ FinallyCloses
  \/ NoBodyWrites
  \/ NoBodyCloses
  \/ DownstreamCancels

SpecRelay == InitRelay /\ [][NextRelay]_allVars

\* =================================================================
\* The new-result badges of the job page: the effect of JobStatusPage that
\* compares the result count of the exposed snapshot with the count it
\* saw last, marks the results that were added and unmarks them with a
\* timeout.  The effect runs after every render in which the snapshot or
\* the tracked count changed; a snapshot arrives whenever the tracker
\* replaces the job it exposes.
\* =================================================================

\* ---------------------------------------------------------------- bounds
MaxCount == 3         \* results in one snapshot
MaxPending == 2       \* expiry timeouts that have not run yet

\* ---------------------------------------------------------------- effect
\* job?.results?.length || 0
ResultCount(j) == IF j = NoJob THEN 0 ELSE j.n

\* Mutant: a snapshot with as many results as before is marked again.
MarksOnEqual(prev, j) == j # NoJob /\ ResultCount(j) >= prev

\* The effect takes the branch that marks: a snapshot with more results.
Marks(prev, j) == j # NoJob /\ ResultCount(j) > prev

\* The effect takes the branch that resets the tracked count.
Resets(prev, j) == j # NoJob /\ ~Marks(prev, j) /\ ResultCount(j) = 0

\* Mutant: every result of the snapshot is marked, not only the added ones.
NewIndicesAll(prev, count) == 0..(count - 1)

\* for (let i = previousResultCount; i < newResultCount; i++) add(i)
NewIndices(prev, count) == prev..(count - 1)

\* One run of the effect with snapshot j.
TrackResults(j) ==
  IF Marks(previousResultCount, j)
  THEN /\ Len(expiries) < MaxPending
       /\ newResultIndices' = NewIndices(previousResultCount, ResultCount(j))
       /\ expiries' = Append(expiries,
                             NewIndices(previousResultCount, ResultCount(j)))
       /\ previousResultCount' = ResultCount(j)
  ELSE IF Resets(previousResultCount, j)
  THEN /\ previousResultCount' = 0
       /\ UNCHANGED <<newResultIndices, expiries>>
  ELSE UNCHANGED deltaVars

\* Snapshots the tracker can expose to the page.
Snapshots ==
  {NoJob} \cup {Job("A", st, n) : st \in {"running", "completed"},
                                  n \in 0..MaxCount}

\* The page's first render: no snapshot, nothing counted.
InitDelta ==
  /\ phase = "mounted"
  /\ jobId = "A"
  /\ job = NoJob
  /\ isLoading = FALSE
  /\ error = Null
  /\ isPolling = FALSE
  /\ intervalRef = NoTimer
  /\ timers = {}
  /\ persisted = Null
  /\ inflight = EmptyBag
  /\ server = [id \in {"A"} |->
                 [status |-> "completed", n |-> MaxResults, cap |-> MaxResults]]
  /\ DeltaIdle
  /\ SummaryIdle
  /\ RelayIdle

\* The tracker exposes snapshot j; the page renders and the effect runs.
SnapshotArrives(j) ==
  /\ job' = j
  /\ TrackResults(j)
  /\ UNCHANGED <<phase, jobId, isLoading, error, isPolling, intervalRef,
                 timers, persisted, inflight, server, summaryVars, relayVars>>

\* The effect runs again with the snapshot it has already seen (its other
\* dependency, the tracked count, changed).
EffectReruns ==
  /\ TrackResults(job)
  /\ UNCHANGED <<vars, summaryVars, relayVars>>

\* Mutant: the timeout unmarks only the indices of its own marking.
ExpiresOwn ==
  /\ expiries # << >>
  /\ newResultIndices' = newResultIndices \ Head(expiries)
  /\ expiries' = Tail(expiries)
  /\ UNCHANGED <<previousResultCount, vars, summaryVars, relayVars>>

\* The oldest timeout runs: setNewResultIndices(new Set()).  All timeouts
\* have the same delay, so they run in the order they were set.
Expires ==
  /\ expiries # << >>
  /\ newResultIndices' = {}
  /\ expiries' = Tail(expiries)
  /\ UNCHANGED <<previousResultCount, vars, summaryVars, relayVars>>

NextDelta ==
  \/ \E j \in Snapshots : SnapshotArrives(j)
  \/ EffectReruns
  \/ Expires

SpecDelta == InitDelta /\ [][NextDelta]_allVars

\* =================================================================
\* Properties of the job-status tracker
\* =================================================================

\* The continuation of request r runs: fetchStatus returns to its caller.
Resumes(r) == StartResumes(r) \/ TickResumes(r) \/ RefetchResumes(r)

\* r carried no job document: the fetch failed.
Failed(r) == r.res.tag # "ok"

\* Position of a status in pending -> running -> completed | failed.
Rank(st) == IF st = "pending" THEN 0 ELSE IF st = "running" THEN 1 ELSE 2

\* The tracker has observed a terminal status for job id and exposes it.
ShownTerminal(id) == job.id = id /\ job.status \in Terminal

\* C1 (quiescence): once the tracker has observed a terminal status for a
\* job, no interval callback issues a status request for that job: no tick
\* fires for a job whose exposed snapshot is completed or failed.
C1_Quiescence ==
  [][\A t \in timers : Tick(t) => ~ShownTerminal(t.id)]_vars

\* C2 (cancellation): a response to a request issued for a job other than
\* the one start() was last called for, or arriving after teardown, changes
\* none of the exposed snapshot, error and loading flag.
C2_StaleResponseIgnored ==
  [][\A r \in Requests :
       (Resumes(r) /\ (phase = "unmounted" \/ (jobId # Null /\ jobId # r.id)))
         => UNCHANGED <<job, error, isLoading>>]_vars

\* C3 (no orphaned interval): after teardown no poll timer is active in any
\* later state and no interval callback issues a request.
C3_NoOrphanInterval ==
  /\ [](phase = "unmounted" => timers = {})
  /\ [][phase = "unmounted" => \A t \in timers : ~Tick(t)]_vars

\* C4 (teardown first): start(B) leaves no timer of another job active once
\* its first request is issued.
C4_TimerTornDownFirst ==
  [][\A id \in JobIds : StartCall(id) => \A t \in timers' : t.id = id]_vars

\* C5 (sticky terminal states): the status of the exposed snapshot of one
\* job never moves backwards, and a terminal status never changes.
C5_StatusNeverBackwards ==
  [][(job # NoJob /\ job' # NoJob /\ job'.id = job.id)
       => /\ Rank(job'.status) >= Rank(job.status)
          /\ job.status \in Terminal => job'.status = job.status]_vars

\* Monitoring of job id is alive: a timer polls it or a start() for it has
\* still to schedule one.
Monitored(id, ts, reqs) ==
  \/ \E t \in ts : t.id = id
  \/ \E q \in reqs : q.kind = "start" /\ q.id = id

C7_NotFoundStopsPolling ==
  [][\A r \in Requests :
       ((StartResumes(r) \/ TickResumes(r)) /\ r.res.tag = "notfound")
         => \A t \in timers' : t.id # r.id]_vars

\* C8 (stale but available): a failed fetch sets the error and leaves the
\* snapshot as it was; a present snapshot becomes null only by clear() or
\* when the consumer is torn down, never by a fetch.
C8_StaleButAvailable ==
  [][/\ \A r \in Requests :
          (Failed(r) /\ Resumes(r))
            => /\ job' = job
               /\ phase = "mounted" => error' = Message(r)
     /\ (job # NoJob /\ job' = NoJob) => (Clear \/ Unmount)]_vars

\* A snapshot is exposed together with the error of a later failed fetch.
C8_Witness ==
  /\ phase = "mounted"
  /\ job # NoJob
  /\ error # Null

\* C9 (polling flag): while mounted, isPolling is true when a poll timer is
\* active for a job last seen pending or running, and false when no timer
\* is active.
C9_PollingFlag ==
  phase = "mounted" =>
    /\ (\E t \in timers : job.id = t.id /\ job.status \in NonTerminal)
         => isPolling
    /\ timers = {} => ~isPolling

\* C10 (loading flag): once the mount effects ran, isLoading is true
\* exactly while a status fetch is outstanding.
C10_LoadingFlag ==
  phase = "mounted" => (isLoading <=> Outstanding > 0)

\* C11 (terminal observed): in the step in which the tracker observes a
\* terminal status for the tracked job, whether in start()'s first fetch, in
\* a tick or in a manual refetch, the persisted id stops naming the job and
\* no timer for the job stays active.
C11_TerminalStopsAndForgets ==
  [][\A r \in Requests :
       (Resumes(r) /\ phase = "mounted" /\ r.id = jobId
          /\ Returned(r).status \in Terminal)
         => /\ persisted' # r.id
            /\ \A t \in timers' : t.id # r.id]_vars

\* C12 (single writer): the continuation of a request of a job other than
\* the one start() was last called for, that is of a superseded tracking
\* session, neither writes nor clears the persisted id.
C12_SupersededNeverWrites ==
  [][\A r \in Requests :
       (Resumes(r) /\ phase = "mounted" /\ jobId # Null /\ jobId # r.id)
         => persisted' = persisted]_vars

\* C13 (resume on reload): the first commit with no initial job id and a
\* persisted id starts tracking the persisted id and issues a status
\* request for it while no snapshot is exposed; with an initial job id it
\* tracks that id and persists it; and a snapshot is only ever exposed as
\* the job document a status request returned.
C13_ResumeOnReload ==
  [][/\ MountEffects =>
          /\ (jobId = Null /\ persisted # Null)
               => /\ jobId' = persisted
                  /\ persisted' = persisted
                  /\ job' = NoJob
                  /\ Request("start", persisted) \in BagToSet(inflight')
          /\ jobId # Null
               => /\ jobId' = jobId
                  /\ persisted' = jobId
                  /\ job' = NoJob
                  /\ Request("start", jobId) \in BagToSet(inflight')
     /\ (job' # job /\ job' # NoJob)
          => \E r \in Requests :
               Resumes(r) /\ r.res.tag = "ok" /\ job' = Returned(r)]_vars

\* The tracker follows the persisted id, its first status request is
\* outstanding and no snapshot is exposed yet.
C13_Witness ==
  /\ phase = "mounted"
  /\ jobId # Null
  /\ persisted = jobId
  /\ job = NoJob
  /\ Request("start", jobId) \in Requests

\* =================================================================
\* Properties of the streaming summary client
\* =================================================================

\* The text shown once a body has been read when every frame of it arrives
\* whole: the lines of the whole text, handled from the cleared state.
WholeText(stream) ==
  HandleLines(Text(NoText, NoText), Split(Wire(stream))).summary

\* The message of the first line of lines that is a whole error frame.
RECURSIVE ErrorIn(_)
ErrorIn(lines) ==
  IF lines = << >> THEN NoMessage
  ELSE IF StartsWithData(Head(lines)) /\ Parses(Head(lines))
          /\ Parsed(Head(lines)).error # NoMessage
       THEN Parsed(Head(lines)).error
       ELSE ErrorIn(Tail(lines))

IsChunk(f) ==
  f.whole /\ Truthy(f.p.chunk) /\ ~f.p.done /\ f.p.error = NoMessage
IsDone(f) == f.whole /\ f.p.done /\ f.p.error = NoMessage
IsError(f) == f.whole /\ f.p.error # NoMessage

\* One or more chunk frames followed by one Done frame.
ChunksThenDone(stream) ==
  /\ Len(stream) >= 2
  /\ IsDone(stream[Len(stream)])
  /\ \A i \in 1..(Len(stream) - 1) : IsChunk(stream[i])

\* The fragments of the chunk frames of stream, concatenated in order.
RECURSIVE Concatenation(_)
Concatenation(stream) ==
  IF stream = << >> THEN NoText
  ELSE (IF IsChunk(Head(stream)) THEN Head(stream).p.chunk ELSE NoText)
         \o Concatenation(Tail(stream))

\* The frames of stream that are whole.
RECURSIVE WellFormed(_)
WellFormed(stream) ==
  IF stream = << >> THEN << >>
  ELSE (IF Head(stream).whole THEN <<Head(stream)>> ELSE << >>)
         \o WellFormed(Tail(stream))

\* C14 (frames across read boundaries): for every split of a body into
\* reads, the text shown when the body has ended is the text shown when
\* every frame arrives whole.
C14_SplitFramesParsedOnce ==
  [][\A s \in sessions :
       StreamEnds(s) => summary' = WholeText(s.stream)]_allVars

\* C15 (error frame is terminal): the read that hands the client a whole
\* error frame ends the session as failed: the summary error is the
\* frame's message and the streaming flag is false.
C15_ErrorFrameTerminal ==
  [][\A s \in sessions : \A n \in 1..Remaining(s) :
       (ReadArrives(s, n) /\ ErrorIn(Lines(s, n)) # NoMessage)
         => /\ summaryError' = ErrorIn(Lines(s, n))
            /\ ~isSummarizing']_allVars

\* C16 (chunks, then Done): when a body of chunk frames followed by a Done
\* frame has ended, the text shown is the full text Done carries, or the
\* concatenation of the fragments in order when it carries none.
C16_ChunksThenDone ==
  [][\A s \in sessions :
       (StreamEnds(s) /\ ChunksThenDone(s.stream))
         => summary' = IF Truthy(s.stream[Len(s.stream)].p.fullSummary)
                       THEN s.stream[Len(s.stream)].p.fullSummary
                       ELSE Concatenation(s.stream)]_allVars

\* C17 (end without a terminal frame): when the connection drops, or the
\* body ends with no Done and no error frame in it, the text shown stays
\* and the summary error is set.
C17_IncompleteFlagged ==
  [][\A s \in sessions :
       (ReadFails(s)
          \/ (StreamEnds(s) /\ \A i \in 1..Len(s.stream) :
                                 ~IsDone(s.stream[i]) /\ ~IsError(s.stream[i])))
         => /\ summary' = summary
            /\ summaryError' # Null]_allVars

\* C18 (malformed frames): a read that hands the client lines whose payload
\* does not parse leaves the session reading and the summary error
\* untouched, and when a body that began with a malformed frame has ended,
\* the text shown is that of the well-formed frames after it: the malformed
\* frame changed nothing and every later well-formed frame was applied.
C18_MalformedSwallowed ==
  [][\A s \in sessions :
       /\ \A n \in 1..Remaining(s) :
            (ReadArrives(s, n)
               /\ \E i \in 1..Len(Lines(s, n)) :
                    StartsWithData(Lines(s, n)[i]) /\ ~Parses(Lines(s, n)[i]))
              => /\ summaryError' = summaryError
                 /\ isSummarizing' = isSummarizing
                 /\ \E t \in sessions' : t.gen = s.gen /\ t.stage = "reading"
       /\ (StreamEnds(s) /\ s.stream # << >> /\ ~Head(s.stream).whole
             /\ \A i \in 2..Len(s.stream) : IsChunk(s.stream[i]))
            => summary' = Concatenation(s.stream)]_allVars

\* C19 (regeneration): generateSummary clears the text and the error of the
\* session before it, and a step that sets the text is a step of the newest
\* session and shows that session's accumulated text or a full text, never
\* what an earlier session accumulated.
C19_Regeneration ==
  [][/\ GenerateSummary => (summary' = NoText /\ summaryError' = Null)
     /\ summary' # summary =>
          \A s \in sessions : \A n \in 1..Remaining(s) :
            ReadArrives(s, n)
              => /\ s.gen = generation
                 /\ \E t \in sessions' :
                      /\ t.gen = s.gen
                      /\ summary' \in {t.acc, FullText}
     /\ \A s \in sessions :
          FallbackArrives(s, FullText) => s.gen = generation]_allVars

\* A second session is streaming and its own text is shown.
C19_Witness ==
  /\ generation = 2
  /\ isSummarizing
  /\ \E s \in sessions :
       s.gen = 2 /\ s.stage = "reading" /\ Truthy(s.acc) /\ summary = s.acc

\* =================================================================
\* Properties of the stream relay
\* =================================================================

\* C20 (single closure): writer.close() is never called twice, and when the
\* piping task of a streaming request has ended, on whichever path, it was
\* called once.
C20_ClosedExactlyOnce ==
  /\ closes <= 1
  /\ relayPc \in {"ended", "rejected"} => closes = 1

\* C21 (pre-stream failure): when the call to the engine of a streaming
\* request rejects or is answered with a non-success status, the route
\* answers with an event stream that carries one terminal error frame.
C21_PreStreamFailureFramed ==
  [][(request.stream
        /\ (UpstreamRejects \/ \E msg \in {NoMessage, ErrGenerate} :
                                 UpstreamRefuses(msg)))
       => /\ response' = StreamResponse
          /\ \E msg \in {ErrGenerate, ErrStart, ErrStream, ErrNoBody} :
               output' = <<ErrorFrame(msg)>>]_allVars

\* Sequence p is the beginning of sequence q.
IsPrefix(p, q) == Len(p) <= Len(q) /\ p = SubSeq(q, 1, Len(p))

\* C22 (verbatim forwarding): while the piping loop runs, what was written
\* is what was read from the engine's body, chunk for chunk and in order,
\* short of the chunk in hand; a failure adds nothing but one error frame
\* after a beginning of what was read; and when the body ended normally
\* with the caller still there, exactly the chunks read were written.
C22_ForwardedVerbatim ==
  /\ relayPc = "read" => output = upstream.read
  /\ relayPc = "write" => Append(output, value) = upstream.read
  /\ relayPc \in {"catch", "finally", "ended", "rejected"} /\ upstream.hasBody
       => \/ IsPrefix(output, upstream.read)
          \/ /\ output # << >>
             /\ output[Len(output)] = ErrorFrame(ErrStream)
             /\ IsPrefix(SubSeq(output, 1, Len(output) - 1), upstream.read)
  /\ (relayPc \in {"finally", "ended"} /\ upstream.hasBody
        /\ upstream.ending = "end" /\ upstream.body = << >>
        /\ downstream = "open")
       => output = upstream.read

\* The engine's body of two chunks ended normally and both were forwarded.
C22_Witness ==
  /\ relayPc = "ended"
  /\ closes = 1
  /\ Len(upstream.read) = 2
  /\ output = upstream.read

\* =================================================================
\* Properties of the new-result badges
\* =================================================================

\* C23: when the tracked count is N and a snapshot with M >= N results
\* arrives, the update marks exactly the indices N..M-1 (for M > N the
\* marked set becomes N..M-1, for M = N the update marks nothing) and the
\* tracked count becomes M.
C23_MarksAddedIndices ==
  [][\A j \in Snapshots \ {NoJob} :
       (SnapshotArrives(j) /\ previousResultCount <= ResultCount(j))
         => /\ previousResultCount' = ResultCount(j)
            /\ ResultCount(j) > previousResultCount
                 => newResultIndices' =
                      {i \in 0..MaxCount : /\ previousResultCount <= i
                                           /\ i < ResultCount(j)}
            /\ ResultCount(j) = previousResultCount
                 => newResultIndices' = newResultIndices]_allVars

\* A snapshot with 3 results arrived when 1 was counted: 1 and 2 are marked.
C23_Witness ==
  /\ job # NoJob /\ ResultCount(job) = 3
  /\ previousResultCount = 3
  /\ newResultIndices = {1, 2}

\* C24: every marking sets a timeout of its own, no timeout is ever
\* cancelled, and when a timeout runs the marked set becomes empty, whatever
\* snapshots arrived since its marking; so marked indices always have a
\* timeout ahead of them that unmarks them.
C24_MarksExpire ==
  /\ [](newResultIndices # {}
          => expiries # << >> /\ expiries[Len(expiries)] = newResultIndices)
  /\ [][/\ (newResultIndices' # newResultIndices /\ newResultIndices' # {})
            => expiries' = Append(expiries, newResultIndices')
        /\ (\E j \in Snapshots : SnapshotArrives(j))
            => \/ expiries' = expiries
               \/ \E m \in SUBSET (0..MaxCount) : expiries' = Append(expiries, m)
        /\ Expires => newResultIndices' = {}]_allVars

\* Scenario E: 2 results, then 3 (index 2 is marked), another snapshot
\* arrives, both timeouts have run and nothing is marked any more.
C24_Witness ==
  /\ previousResultCount = 3
  /\ job # NoJob /\ ResultCount(job) = 3 /\ job.status = "completed"
  /\ newResultIndices = {}
  /\ expiries = << >>

\* C25: an update whose result count equals the tracked count, or a re-run
\* of the effect with the same snapshot, leaves the marked set and the
\* tracked count unchanged and sets no timeout.
C25_Idempotent ==
  [][/\ \A j \in Snapshots \ {NoJob} :
          (SnapshotArrives(j) /\ ResultCount(j) = previousResultCount)
            => UNCHANGED deltaVars
     /\ EffectReruns => UNCHANGED deltaVars]_allVars

\* Results are marked, their timeout is pending, and the snapshot shown has
\* as many results as were counted: a repeated update finds it so and
\* leaves it so.
C25_Witness ==
  /\ job # NoJob /\ ResultCount(job) = previousResultCount
  /\ previousResultCount = 2
  /\ newResultIndices = {0, 1}
  /\ Len(expiries) = 2

C27_IndependentErrors ==
  [][/\ \/ UNCHANGED summaryVars
        \/ \A r \in Requests : ~(Failed(r) /\ Resumes(r))
     /\ \/ UNCHANGED vars
        \/ \A s \in sessions : ~(RequestFails(s, ErrGenerate) \/ ReadFails(s))]_allVars

\* A summary generation failed and a status fetch failed while the next
\* generation reads its stream, and the interval timer is still set.
C27_Witness ==
  /\ error = ErrTransient
  /\ timers # {}
  /\ generation = 2
  /\ \E s \in sessions : s.stage = "reading" /\ s.pos = 1

\* C28: once a snapshot was fetched the page goes on rendering it: while a
\* later poll is in flight or after it failed, the page shows the job page
\* with that snapshot, not the full-page loading view or error view.
C28_StaleSnapshotShown ==
  (phase = "mounted" /\ job # NoJob) => View = "job"

\* =================================================================
\* Further properties of the job-status tracker
\* =================================================================

\* C29: while the exposed snapshot is non-terminal, a response that is
\* applied never shortens the result list of the snapshot, in whatever
\* order the responses of overlapping requests arrive.
C29_ResultsNeverShrink ==
  [][(/\ job # NoJob /\ job.status \in NonTerminal
      /\ job' # NoJob /\ job'.status \in NonTerminal
      /\ job'.id = job.id)
       => job'.n >= job.n]_allVars

\* Everything clear() resets is reset.
Cleared ==
  /\ job = NoJob
  /\ jobId = Null
  /\ error = Null
  /\ intervalRef = NoTimer
  /\ timers = {}
  /\ persisted = Null

\* C30: after clear() the snapshot, the job id and the error are null, no
\* timer is set and no id is persisted, and it stays so until start() is
\* called again: a status response that was in flight when clear() was
\* called is not applied.
C30_ClearedUntilStart ==
  [][(/\ phase = "mounted"
      /\ Cleared
      /\ ~\E id \in JobIds : StartCall(id))
       => Cleared']_allVars

\* C31: every status fetch that completes successfully sets the error to
\* null and replaces the snapshot by exactly the job of that response,
\* whatever snapshot and error were held before.
C31_SuccessReplacesAndClears ==
  [][\A r \in Requests :
       (r.res.tag = "ok" /\ phase = "mounted" /\ Resumes(r))
         => /\ job' = Job(r.id, r.res.status, r.res.n)
            /\ error' = Null]_allVars

\* A response with no results was applied after the job had gained its
\* result: the snapshot is that of the response, and no error is held.
C31_Witness ==
  /\ phase = "mounted"
  /\ job = Job("A", "running", 0)
  /\ error = Null
  /\ server["A"].n = 1
  /\ inflight = EmptyBag

\* C32: in every reachable state at most one interval of the tracker is
\* active, and an active interval is the one intervalRef holds, so that
\* clearPoll can reach it.
C32_OneReachableTimer ==
  /\ Cardinality(timers) <= 1
  /\ \A t \in timers : t.h = intervalRef

\* An interval is active and held by intervalRef while the continuation of
\* an overlapping start() that found the job running is still to run: it
\* will clear that interval before it sets its own.
C32_Witness ==
  /\ phase = "mounted"
  /\ timers = {[h |-> 1, id |-> "A"]}
  /\ intervalRef = 1
  /\ \E r \in Requests : /\ r.kind = "start"
                         /\ r.res.tag = "ok"
                         /\ r.res.status \in NonTerminal

\* C33: with the job reaching a terminal status, every request answered
\* with the job document, and timer ticks and deliveries weakly fair, the
\* tracker started on the job eventually reaches and stays in a state in
\* which the snapshot is terminal and no poll timer is active.
C33_EventuallyConverged ==
  <>[](job.status \in Terminal /\ timers = {})

\* C34: a poll timer that is active for job J stays active, and the
\* persisted id stays J, when the response of a tick of an earlier session
\* for another job completes: that continuation neither clears the
\* persisted id nor clears J's timer.
C34_EarlierTickLeavesSession ==
  [][\A r \in Requests :
       (/\ TickResumes(r)
        /\ phase = "mounted"
        /\ \E t \in timers : t.id # r.id /\ t.h = intervalRef /\ persisted = t.id)
         => /\ timers' = timers
            /\ persisted' = persisted]_allVars

\* =================================================================
\* Further properties of the new-result badges
\* =================================================================

\* C35: the timeout of an earlier marking never empties the set of a later
\* marking: when a timeout runs while indices are marked, it is the timeout
\* of the marking that produced them (the only one pending, the marked set
\* being that of the latest marking).
C35_ExpiryEmptiesOwnMarking ==
  [][(Expires /\ newResultIndices # {})
       => /\ Len(expiries) = 1
          /\ Head(expiries) = newResultIndices]_allVars

\* =================================================================
\* Further properties of the stream relay
\* =================================================================

\* C36: when reading the engine's body fails after k chunks, a caller that
\* stays receives those k chunks in order, then the one frame with error
\* 'Stream error' and done, then the end of the stream; when the engine's
\* response has no body, the caller receives the one frame with error
\* 'No response body' and then the end of the stream.
C36_FailureFramedAndClosed ==
  (relayPc = "ended" /\ response = StreamResponse)
    => /\ (upstream.hasBody /\ upstream.ending = "fail")
            => /\ output = Append(upstream.read, ErrorFrame(ErrStream))
               /\ upstream.body = << >>
               /\ closes = 1
       /\ ~upstream.hasBody
            => /\ output = <<ErrorFrame(ErrNoBody)>>
               /\ closes = 1

\* Two chunks were forwarded, the next read failed, and the stream ended
\* with the error frame behind them.
C36_Witness ==
  /\ relayPc = "ended"
  /\ upstream.hasBody /\ upstream.ending = "fail"
  /\ Len(upstream.read) = 2
  /\ output = Append(upstream.read, ErrorFrame(ErrStream))
  /\ closes = 1

\* =================================================================
\* Further properties of the streaming summary client
\* =================================================================

\* C37: isSummarizing is true exactly while a generation is under way (set
\* when generateSummary issues its request, false again when it returns, on
\* whichever path), at most one generation is under way at a time, and
\* with a null job or a job without results nothing of the summary state
\* changes and no request is issued.
C37_FlagBracketsGeneration ==
  /\ [](/\ Cardinality(sessions) <= 1
        /\ isSummarizing <=> sessions # {})
  /\ [][~HasResults => UNCHANGED summaryVars]_allVars

\* The second generation has ended through a failed read: the flag is
\* false again and no generation is under way.
C37_Witness ==
  /\ generation = 2
  /\ summaryError = ErrNetwork
  /\ sessions = {}
  /\ ~isSummarizing

====
